---- MODULE Spec2Model ----
(***************************************************************************)
(* Model of netpoll.Epoll (src/netpoll/epoll.go): the registration table   *)
(* guarded by one RWMutex, the public calls Add / Del / Mod / Close made    *)
(* by concurrent tasks, the background wait loop and the construction in   *)
(* EpollCreate.  OS calls are modelled by their possible outcomes.         *)
(***************************************************************************)
EXTENDS Integers, Sequences, FiniteSets, TLC

\* ---------------------------------------------------------------- bounds
MaxCb    == 2      \* registrations accepted by Add over one run

\* ------------------------------------------------------------- constants
EPOLLIN            == 1
_EPOLLCLOSED       == 32
maxWaitEventsBegin == 1024
maxWaitEventsStop  == 32768

Fds      == {1, 2}              \* descriptors the callers register
Tasks    == {"t1", "t2"}        \* tasks calling the public methods
Masks    == {EPOLLIN}           \* event masks the callers pass
WaitTask == "wait"              \* the wait goroutine, as the caller of the
                                \* public methods from inside a callback
Callers  == Tasks \cup {WaitTask}
eventFd  == 3                   \* ep.eventFd, the descriptor eventfd2 returned
NoCb     == 0                   \* a nil func value / an absent map entry

ErrNil           == "nil"
ErrClosed        == "ErrClosed"
ErrRegistered    == "ErrRegistered"
ErrNotRegistered == "ErrNotRegistered"
Errno            == "errno"     \* an error returned by an OS call

VARIABLES
    created,      \* position of EpollCreate: "new","epfd","eventfd","ok","failed"
    epfdOpen,     \* ep.fd is an open descriptor
    eventFdOpen,  \* ep.eventFd is an open descriptor
    eventFdCount, \* counter of the eventfd (readable when > 0)
    interest,     \* kernel interest list of ep.fd: caller fd -> event mask
    closed,       \* ep.closed
    callbacks,    \* ep.callbacks: fd -> callback
    mu,           \* ep.mu: [w: writer holds it, r: number of readers]
    waitDone,     \* the channel ep.waitDone is closed
    wpc,          \* position of the wait goroutine
    events,       \* events[:n] of the wait goroutine
    cbs,          \* callbacks[:n] of the wait goroutine
    idx,          \* loop index i of the wait goroutine (1-based)
    evCap,        \* len(events) of the wait goroutine
    cbCap,        \* cap(callbacks) of the wait goroutine
    onErrors,     \* number of calls of the OnWaitError handler
    op,           \* per caller: the public call in progress and its locals
    nextCb,       \* next fresh callback value
    ret,          \* the call that returned last and its error: [op, err]
    \* history of callback invocations, kept for the properties only
    residual,     \* callbacks in the table when Close set ep.closed
    closedCalls,  \* per callback: invocations with _EPOLLCLOSED so far
    removed,      \* callbacks whose Del has returned nil
    late          \* the wait goroutine is inside a callback whose Del had
                  \* returned nil when the call began

vars == <<created, epfdOpen, eventFdOpen, eventFdCount, interest, closed,
          callbacks, mu, waitDone, wpc, events, cbs, idx, evCap, cbCap,
          onErrors, op, nextCb, ret, residual, closedCalls, removed, late>>

kernelVars == <<epfdOpen, eventFdOpen, eventFdCount, interest>>
waitVars   == <<wpc, events, cbs, idx, evCap, cbCap, onErrors, waitDone>>
histVars   == <<residual, closedCalls, removed, late>>
CbIds      == 1 .. MaxCb

Idle == [pc |-> "idle"]
Returned(o, e) == [op |-> o, err |-> e]

Min(a, b) == IF a < b THEN a ELSE b

\* The map m without key k.
Without(m, k) == [x \in DOMAIN m \ {k} |-> m[x]]
\* The map m with key k set to v.
With(m, k, v) == [x \in DOMAIN m \cup {k} |-> IF x = k THEN v ELSE m[x]]
\* Map lookup: the zero value for an absent key.
Lookup(m, k) == IF k \in DOMAIN m THEN m[k] ELSE NoCb

Init ==
    /\ created = "new"
    /\ epfdOpen = FALSE
    /\ eventFdOpen = FALSE
    /\ eventFdCount = 0
    /\ interest = <<>>
    /\ closed = FALSE
    /\ callbacks = <<>>
    /\ mu = [w |-> FALSE, r |-> 0]
    /\ waitDone = FALSE
    /\ wpc = "idle"
    /\ events = <<>>
    /\ cbs = <<>>
    /\ idx = 1
    /\ evCap = 0
    /\ cbCap = 0
    /\ onErrors = 0
    /\ op = [t \in Callers |-> Idle]
    /\ nextCb = 1
    /\ ret = Returned("none", ErrNil)
    /\ residual = {}
    /\ closedCalls = [c \in CbIds |-> 0]
    /\ removed = {}
    /\ late = FALSE

\* ------------------------------------------------------------ EpollCreate
\* unix.EpollCreate1(0) and its error return.
CreateEpfd ==
    /\ created = "new"
    /\ \/ /\ epfdOpen' = TRUE
          /\ created' = "epfd"
          /\ UNCHANGED ret
       \/ /\ created' = "failed"
          /\ ret' = Returned("EpollCreate", Errno)
          /\ UNCHANGED epfdOpen
    /\ UNCHANGED <<eventFdOpen, eventFdCount, interest, closed, callbacks, mu,
                   waitVars, op, nextCb, histVars>>

\* unix.Syscall(unix.SYS_EVENTFD2, 0, 0, 0) and its error return.
CreateEventFd ==
    /\ created = "epfd"
    /\ \/ /\ eventFdOpen' = TRUE
          /\ created' = "eventfd"
          /\ UNCHANGED ret
       \/ /\ created' = "failed"
          /\ ret' = Returned("EpollCreate", Errno)
          /\ UNCHANGED eventFdOpen
    /\ UNCHANGED <<epfdOpen, eventFdCount, interest, closed, callbacks, mu,
                   waitVars, op, nextCb, histVars>>

\* unix.EpollCtl(fd, EPOLL_CTL_ADD, eventFd, ...); on failure both descriptors
\* are closed, on success the Epoll value is built and the wait goroutine started.
CreateRegister ==
    /\ created = "eventfd"
    /\ \/ /\ created' = "ok"
          /\ wpc' = "wait"
          /\ evCap' = maxWaitEventsBegin
          /\ cbCap' = maxWaitEventsBegin
          /\ ret' = Returned("EpollCreate", ErrNil)
          /\ UNCHANGED <<epfdOpen, eventFdOpen>>
       \/ /\ created' = "failed"
          /\ epfdOpen' = FALSE
          /\ eventFdOpen' = FALSE
          /\ ret' = Returned("EpollCreate", Errno)
          /\ UNCHANGED <<wpc, evCap, cbCap>>
    /\ UNCHANGED <<eventFdCount, interest, closed, callbacks, mu, events, cbs,
                   idx, onErrors, waitDone, op, nextCb, histVars>>

\* ------------------------------------------------------------------ locks
\* A Lock that does not wait for the readers.
CanLockOverReaders ==
    mu.w = FALSE

\* ep.mu.Lock() can be taken / ep.mu.RLock() can be taken.
CanLock  == mu.w = FALSE /\ mu.r = 0
CanRLock == mu.w = FALSE

\* RUnlock that leaves the reader registered.
RUnlockMissing(m) ==
    m

\* The mutex after ep.mu.Lock() / Unlock() / RLock() / RUnlock().
Lock(m)    == [m EXCEPT !.w = TRUE]
Unlock(m)  == [m EXCEPT !.w = FALSE]
RLock(m)   == [m EXCEPT !.r = @ + 1]
RUnlock(m) ==
    [m EXCEPT !.r = @ - 1]

\* --------------------------------------------------------------- EpollCtl
\* Outcomes of unix.EpollCtl(ep.fd, ctl, fd, ev): the error and the interest
\* list afterwards.  A call on a closed ep.fd, an ADD of a present fd and a
\* DEL/MOD of an absent fd fail; any other call succeeds or fails (ENOMEM,
\* EPERM, ...) leaving the list alone.
EpollCtl(ctl, fd, ev) ==
    LET fail == [err |-> Errno, interest |-> interest]
    IN  IF ~epfdOpen THEN {fail}
        ELSE IF ctl = "ADD" THEN
            IF fd \in DOMAIN interest THEN {fail}
            ELSE {fail, [err |-> ErrNil, interest |-> With(interest, fd, ev)]}
        ELSE IF fd \notin DOMAIN interest THEN {fail}
        ELSE IF ctl = "DEL" THEN
            {fail, [err |-> ErrNil, interest |-> Without(interest, fd)]}
        ELSE
            {fail, [err |-> ErrNil, interest |-> With(interest, fd, ev)]}

\* -------------------------------------------------------------------- Add
\* AddCheck without the lookup of the descriptor in the table.
AddCheckNoRegistered(fd) ==
    IF closed THEN ErrClosed ELSE ErrNil

\* The checks of Add under the lock, in the order of the code.
AddCheck(fd) ==
    IF closed THEN ErrClosed
    ELSE IF fd \in DOMAIN callbacks THEN ErrRegistered
    ELSE ErrNil

\* AddEntry that stores nothing.
AddEntryDropped(fd, cb) ==
    callbacks

\* ep.callbacks[fd] = cb: the table afterwards.
AddEntry(fd, cb) ==
    With(callbacks, fd, cb)

\* Fresh callback values set aside for an Add call that waits for the lock,
\* as seen by caller t (the bound MaxCb counts the Add calls begun).
Reserved(t) ==
    IF t # WaitTask /\ op[WaitTask].pc = "AddLock" THEN 1 ELSE 0

\* Add from ep.mu.Lock() on: the checks, ep.callbacks[fd] = cb.
AddLocked(t, fd, ev) ==
    /\ CanLock
    /\ IF AddCheck(fd) # ErrNil
       THEN /\ ret' = Returned("Add", AddCheck(fd))
            /\ op' = [op EXCEPT ![t] = Idle]
            /\ UNCHANGED <<callbacks, mu, nextCb>>
       ELSE /\ nextCb + Reserved(t) <= MaxCb
            /\ callbacks' = AddEntry(fd, nextCb)
            /\ nextCb' = nextCb + 1
            /\ mu' = [mu EXCEPT !.w = TRUE]
            /\ op' = [op EXCEPT ![t] = [pc |-> "AddCtl", fd |-> fd, ev |-> ev]]
            /\ UNCHANGED ret
    /\ UNCHANGED <<created, kernelVars, closed, waitVars, histVars>>

\* A task calls Add(fd, ev, cb) and takes the lock.
AddBegin(t, fd, ev) ==
    /\ created = "ok"
    /\ op[t] = Idle
    /\ AddLocked(t, fd, ev)

\* An Add that takes the entry back when EpollCtl has failed.
AddReturnRollback(fd, err) ==
    IF err # ErrNil THEN Without(callbacks, fd) ELSE callbacks

\* The table when Add returns the result err of EpollCtl: the return
\* statement is all there is, the entry stored before the call stays.
AddReturn(fd, err) ==
    callbacks

\* return unix.EpollCtl(ep.fd, unix.EPOLL_CTL_ADD, fd, ev), deferred Unlock.
AddCtl(t) ==
    /\ op[t].pc = "AddCtl"
    /\ \E out \in EpollCtl("ADD", op[t].fd, op[t].ev) :
          /\ interest' = out.interest
          /\ ret' = Returned("Add", out.err)
          /\ callbacks' = AddReturn(op[t].fd, out.err)
    /\ mu' = [mu EXCEPT !.w = FALSE]
    /\ op' = [op EXCEPT ![t] = Idle]
    /\ UNCHANGED <<created, epfdOpen, eventFdOpen, eventFdCount, closed,
                   waitVars, nextCb, histVars>>

\* -------------------------------------------------------------------- Del
\* DelCheck without the lookup of the descriptor in the table.
DelCheckNoRegistered(fd) ==
    IF closed THEN ErrClosed ELSE ErrNil

\* The checks of Del under the lock.
DelCheck(fd) ==
    IF closed THEN ErrClosed
    ELSE IF fd \notin DOMAIN callbacks THEN ErrNotRegistered
    ELSE ErrNil

\* DelEntry that deletes nothing.
DelEntryKept(fd) ==
    callbacks

\* delete(ep.callbacks, fd): the table afterwards.
DelEntry(fd) ==
    Without(callbacks, fd)

\* Del from ep.mu.Lock() on: the checks, delete(ep.callbacks, fd).
DelLocked(t, fd) ==
    /\ CanLock
    /\ IF DelCheck(fd) # ErrNil
       THEN /\ ret' = Returned("Del", DelCheck(fd))
            /\ op' = [op EXCEPT ![t] = Idle]
            /\ UNCHANGED <<callbacks, mu>>
       ELSE /\ callbacks' = DelEntry(fd)
            /\ mu' = [mu EXCEPT !.w = TRUE]
            /\ op' = [op EXCEPT ![t] = [pc |-> "DelCtl", fd |-> fd,
                                         cb |-> Lookup(callbacks, fd)]]
            /\ UNCHANGED ret
    /\ UNCHANGED <<created, kernelVars, closed, waitVars, nextCb, histVars>>

\* A task calls Del(fd) and takes the lock.
DelBegin(t, fd) ==
    /\ created = "ok"
    /\ op[t] = Idle
    /\ DelLocked(t, fd)

\* return unix.EpollCtl(ep.fd, unix.EPOLL_CTL_DEL, fd, nil), deferred Unlock.
DelCtl(t) ==
    /\ op[t].pc = "DelCtl"
    /\ \E out \in EpollCtl("DEL", op[t].fd, 0) :
          /\ interest' = out.interest
          /\ ret' = Returned("Del", out.err)
          /\ removed' = IF out.err = ErrNil /\ op[t].cb # NoCb
                        THEN removed \cup {op[t].cb} ELSE removed
    /\ mu' = [mu EXCEPT !.w = FALSE]
    /\ op' = [op EXCEPT ![t] = Idle]
    /\ UNCHANGED <<created, epfdOpen, eventFdOpen, eventFdCount, closed,
                   callbacks, waitVars, nextCb, residual, closedCalls, late>>

\* -------------------------------------------------------------------- Mod
\* ModCheck without the test of ep.closed.
ModCheckNoClosed(fd) ==
    IF fd \notin DOMAIN callbacks THEN ErrNotRegistered ELSE ErrNil

\* The checks of Mod under the shared lock.
ModCheck(fd) ==
    IF closed THEN ErrClosed
    ELSE IF fd \notin DOMAIN callbacks THEN ErrNotRegistered
    ELSE ErrNil

\* Mod from ep.mu.RLock() on: the checks.
ModLocked(t, fd, ev) ==
    /\ CanRLock
    /\ IF ModCheck(fd) # ErrNil
       THEN /\ ret' = Returned("Mod", ModCheck(fd))
            /\ op' = [op EXCEPT ![t] = Idle]
            /\ UNCHANGED mu
       ELSE /\ mu' = [mu EXCEPT !.r = @ + 1]
            /\ op' = [op EXCEPT ![t] = [pc |-> "ModCtl", fd |-> fd, ev |-> ev]]
            /\ UNCHANGED ret
    /\ UNCHANGED <<created, kernelVars, closed, callbacks, waitVars, nextCb, histVars>>

\* A task calls Mod(fd, ev) and takes the shared lock.
ModBegin(t, fd, ev) ==
    /\ created = "ok"
    /\ op[t] = Idle
    /\ ModLocked(t, fd, ev)

\* return unix.EpollCtl(ep.fd, unix.EPOLL_CTL_MOD, fd, ev), deferred RUnlock.
ModCtl(t) ==
    /\ op[t].pc = "ModCtl"
    /\ \E out \in EpollCtl("MOD", op[t].fd, op[t].ev) :
          /\ interest' = out.interest
          /\ ret' = Returned("Mod", out.err)
    /\ mu' = [mu EXCEPT !.r = @ - 1]
    /\ op' = [op EXCEPT ![t] = Idle]
    /\ UNCHANGED <<created, epfdOpen, eventFdOpen, eventFdCount, closed,
                   callbacks, waitVars, nextCb, histVars>>

\* ------------------------------------------------------------------ Close
\* CloseCheck that lets a closed instance through.
CloseCheckMissing ==
    ErrNil

\* The check of Close under the lock.
CloseCheck ==
    IF closed THEN ErrClosed ELSE ErrNil

\* The callbacks held by the map m.
Range(m) == {m[k] : k \in DOMAIN m} \ {NoCb}

\* Close from ep.mu.Lock() on: a closed instance returns ErrClosed, else
\* ep.closed = true.
CloseLocked(t) ==
    /\ CanLock
    /\ IF CloseCheck # ErrNil
       THEN /\ ret' = Returned("Close", CloseCheck)
            /\ op' = [op EXCEPT ![t] = Idle]
            /\ UNCHANGED <<closed, mu, residual>>
       ELSE /\ closed' = TRUE
            /\ mu' = [mu EXCEPT !.w = TRUE]
            /\ op' = [op EXCEPT ![t] = [pc |-> "CloseWrite"]]
            /\ residual' = Range(callbacks)
            /\ UNCHANGED ret
    /\ UNCHANGED <<created, kernelVars, callbacks, waitVars, nextCb,
                   closedCalls, removed, late>>

\* A task calls Close() and takes the lock.
CloseBegin(t) ==
    /\ created = "ok"
    /\ op[t] = Idle
    /\ CloseLocked(t)

\* unix.Write(ep.eventFd, closeBytes) under the lock; an error is returned,
\* a success goes on to wait for the wait goroutine.
CloseWrite(t) ==
    /\ op[t].pc = "CloseWrite"
    /\ \/ /\ eventFdOpen
          /\ eventFdCount' = eventFdCount + 1
          /\ op' = [op EXCEPT ![t] = [pc |-> "CloseAwait"]]
          /\ UNCHANGED ret
       \/ /\ ret' = Returned("Close", Errno)
          /\ op' = [op EXCEPT ![t] = Idle]
          /\ UNCHANGED eventFdCount
    /\ mu' = [mu EXCEPT !.w = FALSE]
    /\ UNCHANGED <<created, epfdOpen, eventFdOpen, interest, closed, callbacks,
                   waitVars, nextCb, histVars>>

\* A receive that does not wait for the channel to be closed.
WaitDoneIgnored ==
    TRUE

\* <-ep.waitDone can return: the channel is closed.
WaitDoneReceived ==
    waitDone

\* <-ep.waitDone
CloseAwait(t) ==
    /\ op[t].pc = "CloseAwait"
    /\ WaitDoneReceived
    /\ op' = [op EXCEPT ![t] = [pc |-> "CloseEventFd"]]
    /\ UNCHANGED <<created, kernelVars, closed, callbacks, mu, waitVars,
                   nextCb, ret, histVars>>

\* unix.Close(ep.eventFd); an error is returned (Linux releases the
\* descriptor also when close fails).
CloseEventFd(t) ==
    /\ op[t].pc = "CloseEventFd"
    /\ eventFdOpen' = FALSE
    /\ \/ /\ eventFdOpen
          /\ op' = [op EXCEPT ![t] = [pc |-> "CloseDetach"]]
          /\ UNCHANGED ret
       \/ /\ ret' = Returned("Close", Errno)
          /\ op' = [op EXCEPT ![t] = Idle]
    /\ UNCHANGED <<created, epfdOpen, eventFdCount, interest, closed,
                   callbacks, mu, waitVars, nextCb, histVars>>

\* ep.mu.Lock(); callbacks := ep.callbacks; ep.callbacks = nil; ep.mu.Unlock()
\* (a nil map reads as an empty one).
CloseDetach(t) ==
    /\ op[t].pc = "CloseDetach"
    /\ CanLock
    /\ op' = [op EXCEPT ![t] = [pc |-> "CloseFlush", local |-> callbacks]]
    /\ callbacks' = <<>>
    /\ mu' = Unlock(Lock(mu))
    /\ UNCHANGED <<created, kernelVars, closed, waitVars, nextCb, ret,
                   histVars>>

\* One iteration of "for _, cb := range callbacks": a nil cb is skipped, any
\* other is called with _EPOLLCLOSED.  The range order of a map is arbitrary.
CloseFlushNext(t) ==
    /\ op[t].pc = "CloseFlush"
    /\ \E fd \in DOMAIN op[t].local :
          LET cb == op[t].local[fd]
              rest == Without(op[t].local, fd)
          IN  IF cb # NoCb
              THEN /\ op' = [op EXCEPT ![t] = [pc |-> "CloseCb", local |-> rest,
                                                 cb |-> cb, ev |-> _EPOLLCLOSED]]
                   /\ closedCalls' = [closedCalls EXCEPT ![cb] = @ + 1]
              ELSE /\ op' = [op EXCEPT ![t] = [pc |-> "CloseFlush", local |-> rest]]
                   /\ UNCHANGED closedCalls
    /\ UNCHANGED <<created, kernelVars, closed, callbacks, mu, waitVars,
                   nextCb, ret, residual, removed, late>>

\* cb(_EPOLLCLOSED) returns.
CloseCbReturn(t) ==
    /\ op[t].pc = "CloseCb"
    /\ op' = [op EXCEPT ![t] = [pc |-> "CloseFlush", local |-> op[t].local]]
    /\ UNCHANGED <<created, kernelVars, closed, callbacks, mu, waitVars,
                   nextCb, ret, histVars>>

\* The range loop is over: return nil.
CloseReturn(t) ==
    /\ op[t].pc = "CloseFlush"
    /\ DOMAIN op[t].local = {}
    /\ op' = [op EXCEPT ![t] = Idle]
    /\ ret' = Returned("Close", ErrNil)
    /\ UNCHANGED <<created, kernelVars, closed, callbacks, mu, waitVars,
                   nextCb, histVars>>

\* -------------------------------------------------------------- wait loop
\* The sequences of n distinct members of S: the orders in which the kernel
\* can report n of the ready descriptors S.
RECURSIVE Orders(_, _)
Orders(S, n) ==
    IF n = 0 THEN {<<>>}
    ELSE UNION {{<<x>> \o s : s \in Orders(S \ {x}, n - 1)} : x \in S}

\* The descriptors that can be ready: any registered caller descriptors, and
\* the eventfd exactly when its counter is not zero (nothing ever reads it).
ReadySets ==
    LET wake == IF eventFdOpen /\ eventFdCount > 0 THEN {eventFd} ELSE {}
    IN  {R \cup wake : R \in SUBSET (DOMAIN interest)} \ {{}}

\* The event mask the kernel reports for a ready descriptor.
Reported(fd) == IF fd = eventFd THEN EPOLLIN ELSE interest[fd]

\* unix.EpollWait(ep.fd, events, -1) returns n > 0 ready entries.
EpollWaitReturn ==
    /\ wpc = "wait"
    /\ \E R \in ReadySets :
         \E b \in Orders(R, Min(Cardinality(R), evCap)) :
            events' = [k \in 1 .. Len(b) |->
                          [Fd |-> b[k], Events |-> Reported(b[k])]]
    /\ wpc' = "resolve"
    /\ UNCHANGED <<created, kernelVars, closed, callbacks, mu, cbs, idx, evCap, cbCap,
                   onErrors, waitDone, op, nextCb, ret, histVars>>

\* A temporary error that is reported to the handler before the retry.
EpollWaitRetryReported ==
    /\ wpc = "wait"
    /\ onErrors' = onErrors + 1
    /\ UNCHANGED <<created, kernelVars, closed, callbacks, mu, wpc, events,
                   cbs, idx, evCap, cbCap, waitDone, op, nextCb, ret,
                   histVars>>

\* unix.EpollWait fails with a temporary error: continue.
EpollWaitRetry ==
    /\ wpc = "wait"
    /\ UNCHANGED vars

\* unix.EpollWait fails with any other error: onError(err); return.
EpollWaitFatal ==
    /\ wpc = "wait"
    /\ onErrors' = onErrors + 1
    /\ wpc' = "closing"
    /\ UNCHANGED <<created, kernelVars, closed, callbacks, mu, events, cbs, idx,
                   evCap, cbCap, waitDone, op, nextCb, ret, histVars>>

\* WakeAt that never recognises the eventfd.
WakeAtIgnored(evs) ==
    0

\* WakeAt that looks at the first entry of the batch only.
WakeAtFirstOnly(evs) ==
    IF Len(evs) > 0 /\ evs[1].Fd = eventFd THEN 1 ELSE 0

\* Position of the eventfd in the batch, 0 when it is not there.
WakeAt(evs) ==
    IF \E k \in 1 .. Len(evs) : evs[k].Fd = eventFd
    THEN CHOOSE k \in 1 .. Len(evs) : evs[k].Fd = eventFd
    ELSE 0

\* Grows that knows no ceiling.
GrowsUnbounded(n, len) ==
    n = len

\* "n == len(events) && n*2 <= maxWaitEventsStop": the buffers are
\* reallocated after a batch of n entries.
Grows(n, len) ==
    n = len /\ n * 2 <= maxWaitEventsStop

\* The size of a buffer of size cap for the next iteration when the batch
\* had n entries and len(events) was len.
Grow(n, len, cap) ==
    IF Grows(n, len) THEN n * 2 ELSE cap

\* The first slot from i on that holds a callback, Len(c) + 1 if none does.
NextCall(c, i) ==
    IF \E k \in i .. Len(c) : c[k] # NoCb
    THEN CHOOSE k \in i .. Len(c) :
            c[k] # NoCb /\ \A j \in i .. (k - 1) : c[j] = NoCb
    ELSE Len(c) + 1

\* The dispatch loop from slot i on with callbacks[:n] = c: nil slots are
\* passed over up to the next call; when none is left the buffers grow if
\* the batch filled them and the goroutine waits again (what the buffers
\* hold is dead from there on).
Continue(c, i) ==
    IF NextCall(c, i) <= Len(c)
    THEN /\ cbs' = c
         /\ idx' = NextCall(c, i)
         /\ wpc' = "dispatch"
         /\ UNCHANGED <<events, evCap, cbCap>>
    ELSE /\ evCap' = Grow(Len(events), evCap, evCap)
         /\ cbCap' = Grow(Len(events), evCap, cbCap)
         /\ events' = <<>>
         /\ cbs' = <<>>
         /\ idx' = 1
         /\ wpc' = "wait"

\* callbacks = callbacks[:n]; under ep.mu.RLock() callbacks[i] =
\* ep.callbacks[fd] for each entry, or RUnlock and return at the eventfd
\* entry, i being its position (the slots filled before it are never read).
Resolve ==
    /\ wpc = "resolve"
    /\ CanRLock
    /\ mu' = RUnlock(RLock(mu))
    /\ IF WakeAt(events) > 0
       THEN /\ wpc' = "closing"
            /\ idx' = WakeAt(events)
            /\ cbs' = <<>>
            /\ UNCHANGED <<events, evCap, cbCap>>
       ELSE Continue([k \in 1 .. Len(events) |->
                         Lookup(callbacks, events[k].Fd)], 1)
    /\ UNCHANGED <<created, kernelVars, closed, callbacks, onErrors,
                   waitDone, op, nextCb, ret, histVars>>

\* "if cb := callbacks[i]; cb != nil { cb(EpollEvent(events[i].Events))":
\* the call begins.
DispatchCall ==
    /\ wpc = "dispatch"
    /\ cbs[idx] # NoCb
    /\ wpc' = "incb"
    /\ late' = (cbs[idx] \in removed)
    /\ UNCHANGED <<created, kernelVars, closed, callbacks, mu, events, cbs, idx,
                   evCap, cbCap, onErrors, waitDone, op, nextCb, ret, residual,
                   closedCalls, removed>>

\* The call returns (the callback is in no call of its own any more):
\* callbacks[i] = nil, and the loop goes on from i + 1.
DispatchReturn ==
    /\ wpc = "incb"
    /\ op[WaitTask] = Idle
    /\ Continue([cbs EXCEPT ![idx] = NoCb], idx + 1)
    /\ late' = FALSE
    /\ UNCHANGED <<created, kernelVars, closed, callbacks, mu, onErrors,
                   waitDone, op, nextCb, ret, residual, closedCalls, removed>>

\* A deferred function that leaves ep.fd open.
WaitCloseFdSkipped ==
    /\ wpc = "closing"
    /\ wpc' = "signal"
    /\ events' = <<>>
    /\ idx' = 1
    /\ UNCHANGED <<created, kernelVars, closed, callbacks, mu, cbs, evCap,
                   cbCap, onErrors, waitDone, op, nextCb, ret, histVars>>

\* The deferred function, first half: unix.Close(ep.fd), onError on failure.
\* The descriptor and its interest list are gone either way (and so are the
\* locals of the function that has returned).
WaitCloseFd ==
    /\ wpc = "closing"
    /\ epfdOpen' = FALSE
    /\ interest' = <<>>
    /\ \/ UNCHANGED onErrors
       \/ onErrors' = onErrors + 1
    /\ wpc' = "signal"
    /\ events' = <<>>
    /\ idx' = 1
    /\ UNCHANGED <<created, eventFdOpen, eventFdCount, closed, callbacks, mu,
                   cbs, evCap, cbCap, waitDone, op, nextCb, ret, histVars>>

\* The deferred function, second half: close(ep.waitDone).
WaitSignal ==
    /\ wpc = "signal"
    /\ waitDone' = TRUE
    /\ wpc' = "done"
    /\ UNCHANGED <<created, kernelVars, closed, callbacks, mu, events, cbs, idx,
                   evCap, cbCap, onErrors, op, nextCb, ret, histVars>>

\* ------------------------------------------------------------------- Next
Next ==
    \/ CreateEpfd
    \/ CreateEventFd
    \/ CreateRegister
    \/ \E t \in Tasks, fd \in Fds, ev \in Masks : AddBegin(t, fd, ev)
    \/ \E t \in Tasks : AddCtl(t)
    \/ \E t \in Tasks, fd \in Fds : DelBegin(t, fd)
    \/ \E t \in Tasks : DelCtl(t)
    \/ \E t \in Tasks, fd \in Fds, ev \in Masks : ModBegin(t, fd, ev)
    \/ \E t \in Tasks : ModCtl(t)
    \/ \E t \in Tasks : CloseBegin(t)
    \/ \E t \in Tasks : CloseWrite(t)
    \/ \E t \in Tasks : CloseAwait(t)
    \/ \E t \in Tasks : CloseEventFd(t)
    \/ \E t \in Tasks : CloseDetach(t)
    \/ \E t \in Tasks : CloseFlushNext(t)
    \/ \E t \in Tasks : CloseCbReturn(t)
    \/ \E t \in Tasks : CloseReturn(t)
    \/ EpollWaitReturn
    \/ EpollWaitRetry
    \/ EpollWaitFatal
    \/ Resolve
    \/ DispatchCall
    \/ DispatchReturn
    \/ WaitCloseFd
    \/ WaitSignal

Spec == Init /\ [][Next]_vars

\* A step of the wait goroutine other than a failing EpollWait.
WaitStep ==
    \/ EpollWaitReturn
    \/ Resolve
    \/ DispatchCall
    \/ DispatchReturn
    \/ WaitCloseFd
    \/ WaitSignal

\* A step of task t inside a call it has begun.
CallStep(t) ==
    \/ AddCtl(t)
    \/ DelCtl(t)
    \/ ModCtl(t)
    \/ CloseWrite(t)
    \/ CloseAwait(t)
    \/ CloseEventFd(t)
    \/ CloseDetach(t)
    \/ CloseFlushNext(t)
    \/ CloseCbReturn(t)
    \/ CloseReturn(t)

\* The wait goroutine runs, and the syscalls and callbacks a task is in
\* return; a task is free never to make another call.
Fairness ==
    /\ WF_vars(WaitStep)
    /\ \A t \in Tasks : WF_vars(CallStep(t))

FairSpec == Spec /\ Fairness

\* ------------------------------------------------ calls from a callback
\* What a call from inside a callback leaves alone until it has the lock.
cbCallRest == <<created, kernelVars, closed, callbacks, mu, waitVars, nextCb,
                ret, histVars>>

\* The callback the wait goroutine is inside (line 284) calls ep.Add and
\* arrives at ep.mu.Lock().
CbAdd(fd, ev) ==
    /\ wpc = "incb"
    /\ op[WaitTask] = Idle
    /\ nextCb <= MaxCb
    /\ op' = [op EXCEPT ![WaitTask] = [pc |-> "AddLock", fd |-> fd, ev |-> ev]]
    /\ UNCHANGED cbCallRest

\* The callback calls ep.Del and arrives at ep.mu.Lock().
CbDel(fd) ==
    /\ wpc = "incb"
    /\ op[WaitTask] = Idle
    /\ op' = [op EXCEPT ![WaitTask] = [pc |-> "DelLock", fd |-> fd]]
    /\ UNCHANGED cbCallRest

\* The callback calls ep.Mod and arrives at ep.mu.RLock().
CbMod(fd, ev) ==
    /\ wpc = "incb"
    /\ op[WaitTask] = Idle
    /\ op' = [op EXCEPT ![WaitTask] = [pc |-> "ModLock", fd |-> fd, ev |-> ev]]
    /\ UNCHANGED cbCallRest

\* The callback calls ep.Close and arrives at ep.mu.Lock().
CbClose ==
    /\ wpc = "incb"
    /\ op[WaitTask] = Idle
    /\ op' = [op EXCEPT ![WaitTask] = [pc |-> "CloseLock"]]
    /\ UNCHANGED cbCallRest

\* The call of the callback gets the lock and goes on as any other call.
CbAddLock ==
    /\ op[WaitTask].pc = "AddLock"
    /\ AddLocked(WaitTask, op[WaitTask].fd, op[WaitTask].ev)

CbDelLock ==
    /\ op[WaitTask].pc = "DelLock"
    /\ DelLocked(WaitTask, op[WaitTask].fd)

CbModLock ==
    /\ op[WaitTask].pc = "ModLock"
    /\ ModLocked(WaitTask, op[WaitTask].fd, op[WaitTask].ev)

CbCloseLock ==
    /\ op[WaitTask].pc = "CloseLock"
    /\ CloseLocked(WaitTask)

\* The callers of the runs in which callbacks call back into the poller:
\* one outside task and the wait goroutine.
ReTasks   == {"t1"}
ReCallers == ReTasks \cup {WaitTask}

ReNext ==
    \/ CreateEpfd
    \/ CreateEventFd
    \/ CreateRegister
    \/ \E t \in ReTasks, fd \in Fds, ev \in Masks : AddBegin(t, fd, ev)
    \/ \E t \in ReTasks, fd \in Fds : DelBegin(t, fd)
    \/ \E t \in ReTasks, fd \in Fds, ev \in Masks : ModBegin(t, fd, ev)
    \/ \E t \in ReTasks : CloseBegin(t)
    \/ \E fd \in Fds, ev \in Masks : CbAdd(fd, ev)
    \/ \E fd \in Fds : CbDel(fd)
    \/ \E fd \in Fds, ev \in Masks : CbMod(fd, ev)
    \/ CbClose
    \/ CbAddLock
    \/ CbDelLock
    \/ CbModLock
    \/ CbCloseLock
    \/ \E t \in ReCallers : AddCtl(t)
    \/ \E t \in ReCallers : DelCtl(t)
    \/ \E t \in ReCallers : ModCtl(t)
    \/ \E t \in ReCallers : CloseWrite(t)
    \/ \E t \in ReCallers : CloseAwait(t)
    \/ \E t \in ReCallers : CloseEventFd(t)
    \/ \E t \in ReCallers : CloseDetach(t)
    \/ \E t \in ReCallers : CloseFlushNext(t)
    \/ \E t \in ReCallers : CloseCbReturn(t)
    \/ \E t \in ReCallers : CloseReturn(t)
    \/ EpollWaitReturn
    \/ EpollWaitRetry
    \/ EpollWaitFatal
    \/ Resolve
    \/ DispatchCall
    \/ DispatchReturn
    \/ WaitCloseFd
    \/ WaitSignal

ReSpec == Init /\ [][ReNext]_vars

\* The call of the callback gets the lock it waits for.
CbLockStep ==
    \/ CbAddLock
    \/ CbDelLock
    \/ CbModLock
    \/ CbCloseLock

\* As Fairness; and a caller blocked in ep.mu.Lock() or RLock() gets the
\* lock when it is free again and again (sync.RWMutex hands a lock that is
\* released over to the goroutine that waits for it).
ReFairness ==
    /\ WF_vars(WaitStep)
    /\ \A t \in ReCallers : WF_vars(CallStep(t))
    /\ SF_vars(CbLockStep)

FairReSpec == ReSpec /\ ReFairness

\* ------------------------------------------------------- large batches
\* Numbers of entries EpollWait can return into a buffer of len entries
\* (between 1 and len): the least, the greatest and the one below it.
BatchSizes(len) == {1, len - 1, len}

\* One whole iteration of the wait loop for a batch of n entries (n not
\* enumerated as descriptors) when no entry is the eventfd and the table
\* holds no callback for any of them: EpollWait returns n, callbacks[:n] is
\* taken, the resolve loop under RLock fills nil slots, the dispatch loop
\* calls nothing, the buffers grow if the batch filled them.
WaitBatch(n) ==
    /\ wpc = "wait"
    /\ n \in 1 .. evCap
    /\ n <= cbCap
    /\ CanRLock
    /\ mu' = RUnlock(RLock(mu))
    /\ evCap' = Grow(n, evCap, evCap)
    /\ cbCap' = Grow(n, evCap, cbCap)
    /\ UNCHANGED <<created, kernelVars, closed, callbacks, wpc, events, cbs,
                   idx, onErrors, waitDone, op, nextCb, ret, histVars>>

\* The runs with batches of up to len(events) entries: the callers register
\* and unregister, the wait goroutine takes batches with nothing to call
\* until EpollWait fails.
GrowNext ==
    \/ CreateEpfd
    \/ CreateEventFd
    \/ CreateRegister
    \/ \E t \in Tasks, fd \in Fds, ev \in Masks : AddBegin(t, fd, ev)
    \/ \E t \in Tasks : AddCtl(t)
    \/ \E t \in Tasks, fd \in Fds : DelBegin(t, fd)
    \/ \E t \in Tasks : DelCtl(t)
    \/ \E t \in Tasks, fd \in Fds, ev \in Masks : ModBegin(t, fd, ev)
    \/ \E t \in Tasks : ModCtl(t)
    \/ \E n \in BatchSizes(evCap) : WaitBatch(n)
    \/ EpollWaitRetry
    \/ EpollWaitFatal
    \/ WaitCloseFd
    \/ WaitSignal

GrowSpec == Init /\ [][GrowNext]_vars

\* ============================================================= properties
\* Positions inside the body of the Close call that set ep.closed.
ClosePcs == {"CloseWrite", "CloseAwait", "CloseEventFd", "CloseDetach",
             "CloseFlush", "CloseCb"}

\* Number of invocations of callback cb in progress, by the wait goroutine
\* and by the flush of Close.
Running(cb) ==
    (IF wpc = "incb" /\ cbs[idx] = cb THEN 1 ELSE 0)
    + Cardinality({t \in Tasks : op[t].pc = "CloseCb" /\ op[t].cb = cb})

\* ---------------------------------------------------------------------- C1
\* C1: once the Close call that set ep.closed has returned, whatever its OS
\* calls returned, every callback that was in the table when it set the flag
\* has been invoked exactly once with _EPOLLCLOSED.
C1_ResidualNotifiedOnce ==
    (closed /\ \A t \in Tasks : op[t].pc \notin ClosePcs)
        => \A cb \in residual : closedCalls[cb] = 1

\* ---------------------------------------------------------------------- C2
\* C2: a callback is never invoked after the Del of its descriptor has
\* returned nil, neither by the wait goroutine nor by Close.
C2_NeverInvokedAfterDel ==
    /\ ~late
    /\ \A cb \in removed : closedCalls[cb] = 0

\* Slots of the current batch still to be dispatched that hold callback cb.
Pending(cb) ==
    IF wpc \in {"dispatch", "incb"}
    THEN {k \in idx .. Len(cbs) : cbs[k] = cb}
    ELSE {}

\* C2 as amended, state part: a callback whose Del has returned nil is no
\* longer in the table nor in the map Close detached, Close has never
\* invoked it, and at most one slot still to be dispatched holds it.
C2_RemovedInv ==
    \A cb \in removed :
        /\ Cardinality(Pending(cb)) <= 1
        /\ closedCalls[cb] = 0
        /\ cb \notin Range(callbacks)
        /\ \A t \in Tasks :
              op[t].pc \in {"CloseFlush", "CloseCb"} => cb \notin Range(op[t].local)

\* C2 as amended, step part: no step puts such a callback into a slot (a
\* batch resolved after the return of Del does not pick it up), and the slot
\* of a call that has returned is cleared.
C2_RemovedStep ==
    \A cb \in removed :
        /\ (wpc' \in {"dispatch", "incb"})
              => \A k \in 1 .. Len(cbs') :
                    cbs'[k] = cb => (k \in Pending(cb) /\ cbs[k] = cb)
        /\ (wpc = "incb" /\ wpc' = "dispatch") => cbs'[idx] = NoCb

\* C2 (amended): after Del has returned nil the callback is neither
\* resolved by a later batch nor invoked by Close; only a batch resolved
\* before Del took the lock still invokes it, at most once.
C2_RemovedOnlyStale ==
    [] C2_RemovedInv /\ [][C2_RemovedStep]_vars

\* C2 witness: the wait goroutine is inside a callback that it began to
\* invoke after the Del of its descriptor had returned nil.
C2_Witness ==
    /\ wpc = "incb"
    /\ late
    /\ cbs[idx] \in removed

\* ---------------------------------------------------------------------- C3
\* C3: at most one invocation of a callback is in progress at any time,
\* counting the dispatch of the wait goroutine and the flush of Close.
C3_NoConcurrentInvocation ==
    \A cb \in CbIds : Running(cb) <= 1

\* C3 witness: Close has set the flag and waits for the wait goroutine, which
\* is inside a callback that Close is going to flush.
C3_Witness ==
    /\ wpc = "incb"
    /\ cbs[idx] \in residual
    /\ \E t \in Tasks : op[t].pc = "CloseAwait"

\* ---------------------------------------------------------------------- C4
\* C4, state part: at most one Close call is ever past the check of
\* ep.closed, and the eventfd is written at most once.
C4_SingleCloser ==
    /\ Cardinality({t \in Tasks : op[t].pc \in ClosePcs}) <= 1
    /\ eventFdCount <= 1

\* C4, step part: a Close call on a closed instance returns ErrClosed and
\* changes nothing else.
C4_ClosedCloseStep ==
    \A t \in Tasks :
        (closed /\ CloseBegin(t))
            => /\ ret' = Returned("Close", ErrClosed)
               /\ UNCHANGED <<created, kernelVars, closed, callbacks, mu,
                              waitVars, op, nextCb, histVars>>

\* C4: every Close call after the first returns ErrClosed and has no other
\* effect, also while the first Close is still executing.
C4_SecondCloseNoEffect ==
    [] C4_SingleCloser /\ [][C4_ClosedCloseStep]_vars

\* C4 witness: a Close call has returned ErrClosed while the first one is
\* still waiting for the wait goroutine.
C4_Witness ==
    /\ ret = Returned("Close", ErrClosed)
    /\ \E t \in Tasks : op[t].pc = "CloseAwait"

\* ---------------------------------------------------------------------- C5
\* A step in which some task's Add / Del call on fd takes the lock.
AddCalled(fd) == \E t \in Tasks, ev \in Masks : AddBegin(t, fd, ev)
DelCalled(fd) == \E t \in Tasks : DelBegin(t, fd)

\* C5, step part: on an open instance a descriptor is a key of the table
\* after a step exactly when the step is an Add call on it, or it was a key
\* and the step is no Del call on it.
C5_MembershipStep ==
    ~closed =>
        \A fd \in Fds :
            (fd \in DOMAIN callbacks')
                <=> (AddCalled(fd) \/ (fd \in DOMAIN callbacks /\ ~DelCalled(fd)))

\* C5: on an open instance the keys of the table are exactly the descriptors
\* with an Add call not yet followed by a Del call.
C5_TableMembership ==
    [][C5_MembershipStep]_vars

\* C5 witness: an open instance after an Add, a Del and another Add, with a
\* descriptor registered.
C5_Witness ==
    /\ ~closed
    /\ removed # {}
    /\ DOMAIN callbacks # {}
    /\ \A t \in Tasks : op[t] = Idle

\* ---------------------------------------------------------------------- C6
\* C6, step part: an Add call on a registered descriptor of an open instance
\* returns ErrRegistered, goes on to no EpollCtl call (the task is idle
\* again, the interest list and the lock untouched) and leaves the table as
\* it was; and a batch is resolved to what the table holds.
C6_RegisteredAddStep ==
    /\ \A t \in Tasks, fd \in Fds, ev \in Masks :
          (~closed /\ fd \in DOMAIN callbacks /\ AddBegin(t, fd, ev))
              => /\ ret' = Returned("Add", ErrRegistered)
                 /\ op'[t] = Idle
                 /\ UNCHANGED <<callbacks, interest, mu, nextCb>>
    /\ (wpc = "resolve" /\ wpc' = "dispatch")
          => \A k \in 1 .. Len(events) :
                cbs'[k] = Lookup(callbacks, events[k].Fd)

\* C6: Add on an already registered descriptor returns ErrRegistered, makes
\* no OS call and leaves the table unchanged, so the callback registered
\* first is the one a later readiness event invokes.
C6_RegisteredAddRejected ==
    [][C6_RegisteredAddStep]_vars

\* C6 witness: the last call to return was an Add rejected with
\* ErrRegistered, no call is in progress, one descriptor is registered, and
\* the wait goroutine is inside the callback the table holds for it.
C6_Witness ==
    /\ ret = Returned("Add", ErrRegistered)
    /\ \A t \in Tasks : op[t] = Idle
    /\ wpc = "incb"
    /\ DOMAIN callbacks = {events[idx].Fd}
    /\ cbs[idx] = callbacks[events[idx].Fd]

\* ---------------------------------------------------------------------- C7
\* C7, step part: a Del or Mod call on an unregistered descriptor of an open
\* instance returns ErrNotRegistered, goes on to no EpollCtl call and leaves
\* the table, the flag, the interest list and the lock as they were.
C7_UnregisteredStep ==
    \A t \in Tasks, fd \in Fds :
        (~closed /\ fd \notin DOMAIN callbacks) =>
            /\ DelBegin(t, fd)
                  => /\ ret' = Returned("Del", ErrNotRegistered)
                     /\ op'[t] = Idle
                     /\ UNCHANGED <<callbacks, closed, interest, mu>>
            /\ \A ev \in Masks :
                  ModBegin(t, fd, ev)
                      => /\ ret' = Returned("Mod", ErrNotRegistered)
                         /\ op'[t] = Idle
                         /\ UNCHANGED <<callbacks, closed, interest, mu>>

\* C7: Del or Mod on a descriptor that is not registered returns
\* ErrNotRegistered, makes no OS call and changes neither table nor flag.
C7_UnregisteredRejected ==
    [][C7_UnregisteredStep]_vars

\* C7 witness: on an open instance, after a Del has removed a descriptor, a
\* Mod has returned ErrNotRegistered.
C7_Witness ==
    /\ ~closed
    /\ removed # {}
    /\ ret = Returned("Mod", ErrNotRegistered)

\* ---------------------------------------------------------------------- C8
\* C8, state part: on a closed instance the table holds only callbacks that
\* were registered when the flag was set, and no task is at an EpollCtl call.
C8_ClosedInv ==
    closed =>
        /\ Range(callbacks) \subseteq residual
        /\ \A t \in Tasks : op[t].pc \notin {"AddCtl", "DelCtl", "ModCtl"}

\* C8, step part: the flag is never cleared, and on a closed instance an
\* Add, Del or Mod call returns ErrClosed and changes nothing else.
C8_ClosedStep ==
    /\ closed => closed'
    /\ closed =>
          \A t \in Tasks, fd \in Fds, ev \in Masks :
              /\ AddBegin(t, fd, ev) => ret' = Returned("Add", ErrClosed)
              /\ DelBegin(t, fd) => ret' = Returned("Del", ErrClosed)
              /\ ModBegin(t, fd, ev) => ret' = Returned("Mod", ErrClosed)
              /\ (AddBegin(t, fd, ev) \/ DelBegin(t, fd) \/ ModBegin(t, fd, ev))
                    => UNCHANGED <<callbacks, interest, mu, op, nextCb>>

\* C8: once set, the closed flag stays set and every Add, Del and Mod
\* returns ErrClosed without an OS call or a change of the table.
C8_ClosedIsTerminal ==
    [] C8_ClosedInv /\ [][C8_ClosedStep]_vars

\* C8 witness: an Add on a registered descriptor of a closed instance has
\* returned ErrClosed (not ErrRegistered).
C8_Witness ==
    /\ closed
    /\ ret = Returned("Add", ErrClosed)
    /\ DOMAIN callbacks = Fds

\* ---------------------------------------------------------------------- C9
\* C9: when EpollCreate has returned an error, whichever step failed, no
\* descriptor it opened is still open and no wait goroutine was started.
C9_AtomicConstruction ==
    created = "failed" => (~epfdOpen /\ ~eventFdOpen /\ wpc = "idle")

\* --------------------------------------------------------------------- C10
\* C10: under fair scheduling and with callbacks that return, the Close call
\* that has set the flag (the only one ever past the check) eventually
\* returns: a Close in progress leads to no Close in progress.
C10_CloseReturns ==
    (\E t \in Tasks : op[t].pc \in ClosePcs)
        ~> (\A t \in Tasks : op[t].pc \notin ClosePcs)

\* C10 witness: Close has returned nil on an instance whose wait goroutine
\* ended on a fatal EpollWait error (the handler was called for it and for
\* a failing close of ep.fd).
C10_Witness ==
    /\ ret = Returned("Close", ErrNil)
    /\ eventFdCount = 1
    /\ onErrors = 2
    /\ wpc = "done"

\* --------------------------------------------------------------------- C11
\* Positions at which a caller holds ep.mu exclusively / shared.
WritePcs == {"AddCtl", "DelCtl", "CloseWrite"}
ReadPcs  == {"ModCtl"}

\* Positions of a call of the callback to Add, Del or Mod.
CbCallPcs == {"AddLock", "DelLock", "ModLock", "AddCtl", "DelCtl", "ModCtl"}

\* C11, state part: while a callback is being invoked, by the wait goroutine
\* or by the flush of Close, the lock is held only by public calls in
\* progress, each at its EpollCtl or Write: the dispatch loop and the flush
\* loop hold it neither shared nor exclusively, and the task running the
\* flush is in no such call.
C11_NoLockInCallback ==
    (wpc = "incb" \/ \E t \in Callers : op[t].pc = "CloseCb") =>
        /\ mu.r = Cardinality({t \in Callers : op[t].pc \in ReadPcs})
        /\ mu.w = (\E t \in Callers : op[t].pc \in WritePcs)
        /\ \A t \in Callers :
              op[t].pc = "CloseCb" => op[t].pc \notin WritePcs \cup ReadPcs

CloseReturned ==
    closed /\ \A t \in Callers : op[t].pc \notin ClosePcs

\* C12, step part: once the first Close call has returned, the wait
\* goroutine begins no invocation of a callback, and it never begins one of
\* a callback that has been invoked with _EPOLLCLOSED.
C12_InertStep ==
    DispatchCall => (~CloseReturned /\ closedCalls[cbs[idx]] = 0)

\* C12: after the first Close call has returned, whatever its OS calls
\* returned, the wait goroutine invokes no callback with a readiness event,
\* and the _EPOLLCLOSED invocation of a callback is its last one.
C12_InertAfterClose ==
    [][C12_InertStep]_vars

\* --------------------------------------------------------------------- C13
\* The batch the wait goroutine holds has an entry for the eventfd.
HasWake == \E k \in 1 .. Len(events) : events[k].Fd = eventFd

\* Positions of the wait goroutine after its loop has returned.
EndedPcs == {"closing", "signal", "done"}

\* C13, state part: no batch with the eventfd in it is ever dispatched, and
\* what Close invokes it invokes with _EPOLLCLOSED, after the wait goroutine
\* has ended.
C13_WakeInv ==
    /\ wpc \in {"dispatch", "incb"} => ~HasWake
    /\ \A t \in Tasks :
          op[t].pc = "CloseCb" => (op[t].ev = _EPOLLCLOSED /\ wpc = "done")

\* C13, step part: the resolve of a batch with the eventfd in it, wherever
\* it is, ends the loop with the lock as it was before the RLock and with no
\* invocation begun; and a loop that has ended never goes back to dispatch.
C13_WakeStep ==
    /\ (wpc = "resolve" /\ HasWake /\ wpc' # wpc)
          => (wpc' = "closing" /\ mu' = mu /\ UNCHANGED <<late, closedCalls>>)
    /\ wpc \in EndedPcs => wpc' \in EndedPcs

\* C13: when the eventfd is among the entries of a batch, at whatever
\* position, the wait goroutine unlocks and returns without invoking any
\* callback of the batch; the other descriptors of the batch are only ever
\* notified by Close, with _EPOLLCLOSED.
C13_WakeEndsLoop ==
    [] C13_WakeInv /\ [][C13_WakeStep]_vars

\* C13 witness: the loop has returned at the eventfd entry found in second
\* position of a batch of three, behind the entry of a registered
\* descriptor, with the lock free.
C13_Witness ==
    /\ wpc = "closing"
    /\ Len(events) = 3
    /\ idx = 2
    /\ events[1].Fd \in DOMAIN callbacks
    /\ mu = [w |-> FALSE, r |-> 0]

\* --------------------------------------------------------------------- C14
\* The sizes the buffers can have: the initial one times a power of two, up
\* to the ceiling.
Capacities ==
    {c \in maxWaitEventsBegin .. maxWaitEventsStop :
        \E k \in 0 .. 5 : c = maxWaitEventsBegin * 2^k}

\* C14, state part: once the wait goroutine runs, len(events) is one of
\* Capacities, cap(callbacks) is equal to it, and the batch held fits.
C14_CapacityInv ==
    wpc # "idle" =>
        /\ evCap \in Capacities
        /\ cbCap = evCap
        /\ Len(events) <= cbCap

\* C14, step part: an iteration with n entries doubles len(events) exactly
\* when n is len(events) and the double is at most the ceiling, and leaves
\* it alone otherwise; n fits into callbacks; the size never shrinks.
C14_CapacityStep ==
    /\ \A n \in BatchSizes(evCap) :
          WaitBatch(n) =>
              /\ n <= cbCap
              /\ evCap' = IF n = evCap /\ evCap * 2 <= maxWaitEventsStop
                          THEN evCap * 2 ELSE evCap
    /\ evCap' >= evCap

\* C14: the batch capacity starts at 1024, doubles after an iteration if and
\* only if the ready count was the capacity and the double does not exceed
\* 32768, never shrinks, and the callback buffer has the capacity of the
\* event buffer.
C14_CapacityGrowth ==
    [] C14_CapacityInv /\ [][C14_CapacityStep]_vars

\* C14 witness: after five full batches the buffers have the ceiling size
\* and the goroutine waits with them.
C14_Witness ==
    /\ wpc = "wait"
    /\ evCap = maxWaitEventsStop
    /\ cbCap = maxWaitEventsStop

\* --------------------------------------------------------------------- C15
\* Descriptor fd has a table entry and no kernel registration.
Unarmed(fd) == fd \in DOMAIN callbacks /\ fd \notin DOMAIN interest

\* C15, state part: a caller at the EpollCtl of Add has its callback in the
\* table already.
C15_StoredFirst ==
    \A t \in Tasks :
        op[t].pc = "AddCtl"
            => (op[t].fd \in DOMAIN callbacks /\ callbacks[op[t].fd] # NoCb)

\* C15, step part: the return of Add, with the error of EpollCtl or nil,
\* leaves the table as it is; on an open instance an Add on an entry
\* without kernel registration is rejected with ErrRegistered and a Del of
\* it passes the checks and deletes it; the Close that sets the flag takes
\* every table entry as to be notified, and its flush ranges over every
\* entry of the table, calling each with _EPOLLCLOSED.
C15_StaleStep ==
    \A t \in Tasks :
        /\ AddCtl(t)
              => /\ callbacks' = callbacks
                 /\ ret' \in {Returned("Add", ErrNil), Returned("Add", Errno)}
        /\ \A fd \in Fds :
              (~closed /\ Unarmed(fd)) =>
                  /\ \A ev \in Masks :
                        AddBegin(t, fd, ev)
                            => /\ ret' = Returned("Add", ErrRegistered)
                               /\ callbacks' = callbacks
                  /\ DelBegin(t, fd)
                        => /\ op'[t].pc = "DelCtl"
                           /\ callbacks' = Without(callbacks, fd)
        /\ (~closed /\ CloseBegin(t)) => residual' = Range(callbacks)
        /\ CloseDetach(t) => op'[t].local = callbacks
        /\ CloseFlushNext(t)
              => \E fd \in DOMAIN op[t].local :
                    /\ op'[t].local = Without(op[t].local, fd)
                    /\ op'[t].pc = "CloseCb"
                    /\ op'[t].cb = op[t].local[fd]
                    /\ op'[t].ev = _EPOLLCLOSED
        /\ CloseReturn(t) => DOMAIN op[t].local = {}

\* C15: Add records the callback before the EpollCtl call and a failure of
\* that call leaves the entry in place: a later Add gets ErrRegistered, a
\* later Del passes the registration check, and Close notifies the callback
\* with _EPOLLCLOSED like any other entry.
C15_StaleEntryKept ==
    [] C15_StoredFirst /\ [][C15_StaleStep]_vars

\* C15 witness: on an open instance with its polling descriptor open, the
\* Add of a descriptor has returned the error of EpollCtl, and the entry is
\* in the table with nothing registered in the kernel.
C15_Witness ==
    /\ ~closed
    /\ epfdOpen
    /\ ret = Returned("Add", Errno)
    /\ \A t \in Tasks : op[t] = Idle
    /\ \E fd \in Fds : Unarmed(fd)

\* --------------------------------------------------------------------- C16
\* Positions of Close behind <-ep.waitDone, behind unix.Close(ep.eventFd)
\* and behind the detaching of the table.
AfterAwaitPcs  == {"CloseEventFd", "CloseDetach", "CloseFlush", "CloseCb"}
AfterWakePcs   == {"CloseDetach", "CloseFlush", "CloseCb"}
AfterDetachPcs == {"CloseFlush", "CloseCb"}

\* The order of shutdown but for the closing of the polling descriptor: the
\* sentinel is written after the flag is set, completion is signalled after
\* the polling descriptor is closed, the eventfd is closed after completion
\* is signalled, the table is detached after the eventfd is closed, the
\* callbacks are invoked after the table is detached.
C16_OrderRest ==
    /\ eventFdCount > 0 => closed
    /\ (created = "ok" /\ ~epfdOpen) <=> wpc \in {"signal", "done"}
    /\ waitDone <=> wpc = "done"
    /\ (created = "ok" /\ ~eventFdOpen) => waitDone
    /\ \A t \in Tasks :
          /\ op[t].pc \in AfterAwaitPcs => (closed /\ waitDone)
          /\ op[t].pc \in AfterWakePcs => ~eventFdOpen
          /\ op[t].pc \in AfterDetachPcs => callbacks = <<>>
    /\ \A cb \in CbIds :
          closedCalls[cb] > 0 => (callbacks = <<>> /\ ~eventFdOpen)

\* C16: shutdown follows one fixed order: flag, sentinel, the wait goroutine
\* closes the polling descriptor, completion is signalled, Close closes the
\* eventfd, detaches the table, invokes the callbacks.
C16_FixedOrder ==
    /\ C16_OrderRest
    /\ (created = "ok" /\ ~epfdOpen) => (closed /\ eventFdCount > 0)

\* C16 as amended, state part: the wait goroutine is about to close the
\* polling descriptor either at the eventfd entry of a batch, the flag set
\* and the sentinel written, or after a fatal EpollWait error reported to
\* the handler, whatever the flag; the rest of the order holds.
C16_OrderInv ==
    /\ C16_OrderRest
    /\ wpc = "closing"
          => \/ HasWake /\ closed /\ eventFdCount > 0
             \/ events = <<>> /\ onErrors > 0

\* C16 as amended, step part: of an instance that was created, only the
\* deferred function of the wait goroutine closes the polling descriptor,
\* which stays closed; only it signals completion; only Close closes the
\* eventfd.
C16_OrderStep ==
    /\ (created = "ok" /\ epfdOpen /\ ~epfdOpen') => WaitCloseFd
    /\ (created = "ok" /\ ~epfdOpen) => ~epfdOpen'
    /\ waitDone' # waitDone => WaitSignal
    /\ waitDone => waitDone'
    /\ (created = "ok" /\ eventFdOpen /\ ~eventFdOpen')
          => \E t \in Tasks : CloseEventFd(t)

\* C16 (amended): the order holds when the sentinel ends the wait loop; a
\* loop ended by a fatal error closes the polling descriptor and signals
\* completion with the flag not set.  The polling descriptor is closed once
\* and only by the wait goroutine, completion is signalled once, on both
\* ways out of the loop, and the eventfd is not closed before that.
C16_ShutdownOrder ==
    /\ [] C16_OrderInv
    /\ [][C16_OrderStep]_vars
    /\ (wpc = "closing") ~> waitDone

\* C16 witness: with no error reported, the flush of Close is inside a
\* callback, all earlier steps of the order done.
C16_Witness ==
    /\ \E t \in Tasks : op[t].pc = "CloseCb"
    /\ onErrors = 0
    /\ eventFdCount = 1
    /\ wpc = "done"
    /\ ~epfdOpen
    /\ ~eventFdOpen

\* --------------------------------------------------------------------- C17
\* C17, step part: a temporary EpollWait error changes nothing at all; any
\* other calls the handler once and ends the loop, leaving the flag, the
\* table, the descriptors and the callbacks alone; a loop that has ended
\* begins no invocation.
C17_WaitErrorStep ==
    /\ EpollWaitRetry => UNCHANGED vars
    /\ EpollWaitFatal
          => /\ onErrors' = onErrors + 1
             /\ wpc' = "closing"
             /\ UNCHANGED <<closed, callbacks, kernelVars, waitDone, op,
                            histVars>>
    /\ wpc \in EndedPcs => ~DispatchCall

\* C17, state part: a Close that has returned nil, after a fatal error as
\* well, has invoked every callback it found in the table once with
\* _EPOLLCLOSED.
C17_CloseStillNotifies ==
    ret = Returned("Close", ErrNil)
        => \A cb \in residual : closedCalls[cb] = 1

\* C17: a temporary failure of EpollWait is retried with nothing changed and
\* nothing called; any other failure calls the error handler once and ends
\* the wait loop, which closes the polling descriptor and signals completion
\* with the flag and the table untouched; no callback is invoked from then
\* on until Close, which notifies the registered callbacks.
C17_WaitFailure ==
    /\ [][C17_WaitErrorStep]_vars
    /\ [] C17_CloseStillNotifies
    /\ (wpc = "closing" /\ ~HasWake) ~> (wpc = "done" /\ ~epfdOpen /\ waitDone)

\* C17 witness: the loop has ended on a fatal error (the handler was called
\* for it and for the failing close of the polling descriptor), and a later
\* Close has returned nil after notifying the two registered callbacks.
C17_Witness ==
    /\ wpc = "done"
    /\ onErrors = 2
    /\ ret = Returned("Close", ErrNil)
    /\ Cardinality(residual) = 2
    /\ \A cb \in residual : closedCalls[cb] = 1

\* --------------------------------------------------------------------- C18
\* C18, state part: a caller at the EpollCtl of Mod holds the lock shared,
\* and the flag is not set: while the flag is set, and so while Close
\* detaches the table and flushes it, no Mod is at its EpollCtl.
C18_NoModWhileClosed ==
    \A t \in Tasks :
        op[t].pc = "ModCtl"
            => /\ mu.r >= 1
               /\ ~closed
               /\ \A u \in Tasks : op[u].pc \notin ClosePcs

\* C18, step part: no step of Mod changes the table or the flag; a Mod on a
\* closed instance returns ErrClosed and goes on to no EpollCtl.
C18_ModStep ==
    \A t \in Tasks :
        /\ ModCtl(t) => UNCHANGED <<callbacks, closed>>
        /\ \A fd \in Fds, ev \in Masks :
              ModBegin(t, fd, ev)
                  => /\ UNCHANGED <<callbacks, closed, interest>>
                     /\ closed => (ret' = Returned("Mod", ErrClosed)
                                     /\ op'[t] = Idle /\ mu' = mu)

\* C18: Mod never changes the table or the flag, and against Close it either
\* returns ErrClosed without an OS call or has finished its EpollCtl under
\* the shared lock before the flag is set, so that no EpollCtl of Mod runs
\* or starts while Close detaches or flushes the table.
C18_ModAgainstClose ==
    [] C18_NoModWhileClosed /\ [][C18_ModStep]_vars

\* C18 witness: a Mod on a registered descriptor has finished its EpollCtl
\* with nil and the Close of the other task has since detached the table
\* and is inside a callback of its flush.
C18_Witness ==
    /\ ret = Returned("Mod", ErrNil)
    /\ \E t \in Tasks : op[t].pc = "CloseCb"

\* --------------------------------------------------------------------- C19
\* C19: a caller at the EpollCtl of Add, Del or Mod finds the polling
\* descriptor ep.fd open, whichever way the wait loop has ended.
C19_CtlOnOpenHandle ==
    \A t \in Tasks :
        op[t].pc \in {"AddCtl", "DelCtl", "ModCtl"} => epfdOpen

\* --------------------------------------------------------------------- C20
\* C20, state part: while the Close called by a dispatched callback is past
\* the check, it is at its Write or at <-ep.waitDone and the wait goroutine
\* is inside that callback; the flag is set, completion is not signalled,
\* both descriptors are open, no callback has been invoked with
\* _EPOLLCLOSED, and once the sentinel is written the call is at
\* <-ep.waitDone.
C20_CloseInCallbackInv ==
    op[WaitTask].pc \in ClosePcs =>
        /\ op[WaitTask].pc \in {"CloseWrite", "CloseAwait"}
        /\ wpc = "incb"
        /\ closed
        /\ ~waitDone
        /\ epfdOpen
        /\ eventFdOpen
        /\ \A cb \in CbIds : closedCalls[cb] = 0
        /\ eventFdCount > 0 <=> op[WaitTask].pc = "CloseAwait"

\* C20, step part: that Close, waiting for completion, stays where it is,
\* and so does the wait goroutine.
C20_CloseInCallbackStep ==
    op[WaitTask].pc = "CloseAwait"
        => (op'[WaitTask].pc = "CloseAwait" /\ wpc' = "incb")

\* C20: a Close called from inside a callback that the wait goroutine is
\* dispatching sets the flag, writes the sentinel and then never returns: it
\* waits for the completion that only the wait goroutine, blocked in that
\* callback, can signal; neither descriptor is ever closed and no callback
\* is invoked with _EPOLLCLOSED.
C20_CloseInCallbackHangs ==
    [] C20_CloseInCallbackInv /\ [][C20_CloseInCallbackStep]_vars

\* C20 witness: the Close called by a callback waits for completion with
\* two callbacks in the table, and the Close of the outside task has since
\* returned ErrClosed.
C20_Witness ==
    /\ op[WaitTask].pc = "CloseAwait"
    /\ wpc = "incb"
    /\ Cardinality(DOMAIN callbacks) = 2
    /\ ret = Returned("Close", ErrClosed)

====
